---- MODULE Spec2Model ----
(***************************************************************************)
(* A model of the adaptive chunking engine of src/main.py: the document    *)
(* classifier, the semantic, code-aware and hierarchical chunkers, and the *)
(* orchestrator behind the /chunk endpoint.                                *)
(*                                                                         *)
(* Text is a sequence of symbols.  A symbol is one character (" ", "\n",   *)
(* "#", ".", ":", a letter, a digit) or one whole lexeme that the regular  *)
(* expressions of the program treat as a unit: a keyword of the classifier *)
(* tables ("api", "bug", ...), a declaration keyword ("def", "class",      *)
(* "function", "public") or the fence marker of three backticks, written   *)
(* "FENCE".  Regular expressions are modelled by what they match on such   *)
(* sequences, position by position, as Python's re module scans them.      *)
(***************************************************************************)
EXTENDS Integers, Sequences, FiniteSets, TLC

VARIABLES
    content,     \* the document text of the request being processed
    filename,    \* its filename, a sequence of characters
    doc_id,      \* the caller's document id, or None
    pc,          \* where the processing of the request stands
    doc_type,    \* DocumentType returned by classify
    strategy,    \* ChunkingStrategy selected from strategy_map
    chunker,     \* the chunker invoked: its class and its max_tokens
    chunks,      \* the chunker's output, a sequence of texts
    result,      \* the dictionary process_document returns
    response,    \* what the endpoint answers: status code and body
    orchestrator,\* the global IntelligentChunker: its tables, shared by all calls
    calls        \* the process_document calls in progress at the same time

vars == <<content, filename, doc_id, pc, doc_type, strategy, chunker, chunks, result,
          response, orchestrator, calls>>

None == "None"

(***************************************************************************)
(* Bounds of the model.                                                    *)
(***************************************************************************)
\* tokens the tokenizer is taken to produce for one word symbol
WordTokens == 128
\* most keyword occurrences in a content given to the classifier
MaxWords == 6

(***************************************************************************)
(* Sequence and character helpers (Python str and re primitives).          *)
(***************************************************************************)
SetMin(S) == CHOOSE x \in S : \A y \in S : x <= y
SetMax(S) == CHOOSE x \in S : \A y \in S : x >= y

RECURSIVE Flatten(_)
Flatten(ss) == IF ss = <<>> THEN <<>> ELSE Head(ss) \o Flatten(Tail(ss))

\* "sep".join(parts)
RECURSIVE Join(_, _)
Join(parts, sep) ==
    IF parts = <<>> THEN <<>>
    ELSE IF Len(parts) = 1 THEN parts[1]
    ELSE parts[1] \o sep \o Join(Tail(parts), sep)

\* s[from:] as a sequence (empty when from is past the end)
Suffix(s, from) == SubSeq(s, from, Len(s))

\* t in s: t occurs in s as a contiguous run
Contains(s, t) ==
    \E i \in 1..(Len(s) - Len(t) + 1) : SubSeq(s, i, i + Len(t) - 1) = t

\* \s of the regular expressions, and the characters str.strip() removes
IsSpace(c) == c \in {" ", "\n"}

UpperLetters == <<"A","B","C","D","E","F","G","H","I","J","K","L","M",
                  "N","O","P","Q","R","S","T","U","V","W","X","Y","Z">>
LowerLetters == <<"a","b","c","d","e","f","g","h","i","j","k","l","m",
                  "n","o","p","q","r","s","t","u","v","w","x","y","z">>
UpperSet == {UpperLetters[i] : i \in 1..26}
ToLower == [c \in UpperSet |-> LowerLetters[CHOOSE i \in 1..26 : UpperLetters[i] = c]]
\* [A-Z]
IsUpper(c) == c \in UpperSet
\* \d
IsDigit(c) == c \in {"0","1","2","3","4","5","6","7","8","9"}
\* [.!?]
IsSentenceEnd(c) == c \in {".", "!", "?"}
\* punctuation and markers: every other non-space symbol is a run of \w characters
IsMark(c) ==
    c \in {"#", ".", "!", "?", ":", "/", "_", "-", "(", ")", "FENCE", "SPECIAL"}
\* \w+ : a letter, a digit or a whole-word lexeme
IsWord(c) == ~IsSpace(c) /\ ~IsMark(c)

\* str.lower(), and the (?i) flag, on one symbol
lower_char(c) ==
    IF IsUpper(c) THEN ToLower[c]
    ELSE IF c = "API" THEN "api"
    ELSE IF c = "Bug" THEN "bug"
    ELSE c
lower(s) == [i \in 1..Len(s) |-> lower_char(s[i])]

\* str.strip()
RECURSIVE FirstNonSpace(_, _)
FirstNonSpace(s, i) ==
    IF i > Len(s) \/ ~IsSpace(s[i]) THEN i ELSE FirstNonSpace(s, i + 1)
RECURSIVE LastNonSpace(_, _)
LastNonSpace(s, i) ==
    IF i < 1 \/ ~IsSpace(s[i]) THEN i ELSE LastNonSpace(s, i - 1)
strip(s) == SubSeq(s, FirstNonSpace(s, 1), LastNonSpace(s, Len(s)))

\* (?m)^ : position i is the start of a line
AtLineStart(s, i) == i = 1 \/ s[i - 1] = "\n"
\* where ".*" started at i stops: the next newline, or one past the end
RECURSIVE EndOfLine(_, _)
EndOfLine(s, i) == IF i > Len(s) \/ s[i] = "\n" THEN i ELSE EndOfLine(s, i + 1)
\* where a greedy "\s*" started at i stops
SkipSpaces(s, i) == FirstNonSpace(s, i)

\* str.split("\n")
RECURSIVE split_lines(_)
split_lines(s) ==
    LET e == EndOfLine(s, 1)
    IN  IF e > Len(s) THEN <<s>>
        ELSE <<SubSeq(s, 1, e - 1)>> \o split_lines(Suffix(s, e + 1))

(***************************************************************************)
(* The tokenizer (tiktoken, cl100k_base) is an external library; the       *)
(* program uses only len(encoding.encode(text)).  The model counts         *)
(* WordTokens tokens for every word symbol (a symbol stands for a run of   *)
(* prose or code of that many tokens), one token for a mark, and none for  *)
(* white space, which the encoding merges into the neighbouring token.     *)
(***************************************************************************)
count_tokens(text) ==
    WordTokens * Cardinality({i \in 1..Len(text) : IsWord(text[i])})
    + Cardinality({i \in 1..Len(text) : IsMark(text[i])})

\* encoding.encode(text) raises ValueError when the text holds the text of a
\* special token of the encoding (such as <|endoftext|>), written "SPECIAL"
encode_raises(text) == \E i \in 1..Len(text) : text[i] = "SPECIAL"

(***************************************************************************)
(* DocumentType, ChunkingStrategy                                          *)
(***************************************************************************)
DocumentType ==
    <<"technical_doc", "support_ticket", "api_reference", "policy", "tutorial",
      "code", "unknown">>
DocumentTypes == {DocumentType[i] : i \in 1..Len(DocumentType)}

ChunkingStrategy == <<"semantic", "code_aware", "hierarchical", "fixed_size">>
ChunkingStrategies == {ChunkingStrategy[i] : i \in 1..Len(ChunkingStrategy)}

(***************************************************************************)
(* DocumentClassifier                                                      *)
(***************************************************************************)
\* self.patterns, in the insertion order of the dictionary.  Each regular
\* expression is an alternation of keywords between \b...\b under (?i): it is
\* the set of (lower-case) lexemes it matches.
patterns == <<
    [doc_type |-> "api_reference", patterns |-> <<
        {"endpoint", "api", "rest", "graphql", "request", "response", "parameter"},
        {"get /", "post /", "put /", "delete /", "patch /"},
        {"json", "xml", "swagger", "openapi"},
        {"authentication", "authorization", "token"} >>],
    [doc_type |-> "technical_doc", patterns |-> <<
        {"architecture", "design", "implementation", "configuration"},
        {"system", "component", "module", "service"},
        {"requirements", "specifications", "technical"} >>],
    [doc_type |-> "support_ticket", patterns |-> <<
        {"issue", "problem", "bug", "error", "ticket"},
        {"reproduce", "steps", "workaround", "solution"},
        {"customer", "user", "reported", "priority"} >>],
    [doc_type |-> "policy", patterns |-> <<
        {"policy", "procedure", "guideline", "compliance"},
        {"must", "shall", "should", "required", "mandatory"},
        {"approval", "review", "governance", "standard"} >>],
    [doc_type |-> "tutorial", patterns |-> <<
        {"tutorial", "guide", "how-to", "step-by-step"},
        {"example", "demo", "walkthrough", "getting started"},
        {"learn", "install", "setup", "configure"} >>],
    [doc_type |-> "code", patterns |-> <<
        {"function", "class", "method", "variable", "import"},
        {"def", "class", "if", "else", "for", "while", "return"},
        {"javascript", "python", "java", "c++", "sql"} >>]
    >>

\* len(re.findall(pattern, content))
findall_count(pattern, text) ==
    Cardinality({i \in 1..Len(text) : lower_char(text[i]) \in pattern})

RECURSIVE SumSeq(_)
SumSeq(ns) == IF ns = <<>> THEN 0 ELSE Head(ns) + SumSeq(Tail(ns))

\* the inner loop of classify: the score of one entry of self.patterns
score_of(entry, text) ==
    SumSeq([k \in 1..Len(entry.patterns) |-> findall_count(entry.patterns[k], text)])

\* scores, as a sequence in the iteration order of self.patterns
scores(text) == [k \in 1..Len(patterns) |-> score_of(patterns[k], text)]

\* max(scores, key=scores.get): the first key, in the dictionary's iteration
\* order, whose score is the maximum
best_type_last(sc) ==
    SetMax({k \in 1..Len(sc) : \A j \in 1..Len(sc) : sc[j] <= sc[k]})
best_type(sc) ==
    SetMin({k \in 1..Len(sc) : \A j \in 1..Len(sc) : sc[j] <= sc[k]})

\* the low-confidence guard of classify
confident_ge2(score) == score >= 2
confident(score) == score > 2

\* the content-based part of classify
classify_content(text) ==
    LET sc == scores(text)
        best == best_type(sc)
    IN  IF confident(sc[best]) THEN patterns[best].doc_type ELSE "unknown"

code_exts == { <<".", "p", "y">>, <<".", "j", "s">>, <<".", "j", "a", "v", "a">>,
               <<".", "c", "p", "p">>, <<".", "s", "q", "l">> }

\* the filename rules of classify, in the order the code tests them; None when
\* no rule matches
filename_rule_api_first(name) ==
    LET filename_lower == lower(name)
    IN  IF Contains(filename_lower, <<"a", "p", "i">>)
           \/ Contains(filename_lower, <<"s", "w", "a", "g", "g", "e", "r">>)
        THEN "api_reference"
        ELSE IF \E ext \in code_exts : Contains(filename_lower, ext) THEN "code"
        ELSE IF Contains(filename_lower, <<"p", "o", "l", "i", "c", "y">>)
           \/ Contains(filename_lower, <<"p", "r", "o", "c", "e", "d", "u", "r", "e">>)
        THEN "policy"
        ELSE IF Contains(filename_lower, <<"t", "u", "t", "o", "r", "i", "a", "l">>)
           \/ Contains(filename_lower, <<"g", "u", "i", "d", "e">>)
        THEN "tutorial"
        ELSE None
filename_rule(name) ==
    LET filename_lower == lower(name)
    IN  IF \E ext \in code_exts : Contains(filename_lower, ext) THEN "code"
        ELSE IF Contains(filename_lower, <<"a", "p", "i">>)
           \/ Contains(filename_lower, <<"s", "w", "a", "g", "g", "e", "r">>)
        THEN "api_reference"
        ELSE IF Contains(filename_lower, <<"p", "o", "l", "i", "c", "y">>)
           \/ Contains(filename_lower, <<"p", "r", "o", "c", "e", "d", "u", "r", "e">>)
        THEN "policy"
        ELSE IF Contains(filename_lower, <<"t", "u", "t", "o", "r", "i", "a", "l">>)
           \/ Contains(filename_lower, <<"g", "u", "i", "d", "e">>)
        THEN "tutorial"
        ELSE None

\* DocumentClassifier.classify(content, filename)
classify(text, name) ==
    LET by_name == filename_rule(name)
    IN  IF by_name # None THEN by_name ELSE classify_content(text)

(***************************************************************************)
(* SemanticChunker                                                         *)
(***************************************************************************)
\* the length of the run of "#" that starts at i
RECURSIVE HashRun(_, _)
HashRun(s, i) == IF i > Len(s) \/ s[i] # "#" THEN 0 ELSE 1 + HashRun(s, i + 1)
\* the length of the run of digits that starts at i
RECURSIVE DigitRun(_, _)
DigitRun(s, i) == IF i > Len(s) \/ ~IsDigit(s[i]) THEN 0 ELSE 1 + DigitRun(s, i + 1)
\* the length of the run of [A-Z\s] that starts at i
RECURSIVE CapsRun(_, _)
CapsRun(s, i) ==
    IF i > Len(s) \/ ~(IsUpper(s[i]) \/ IsSpace(s[i])) THEN 0
    ELSE 1 + CapsRun(s, i + 1)

\* The three alternatives of section_pattern tried at position i: the position
\* one past the match, or 0 when the alternative does not match there.
\*   #{1,6}\s+.*
match_heading(s, i) ==
    LET n == HashRun(s, i)
        j == i + n
    IN  IF n >= 1 /\ n <= 6 /\ j <= Len(s) /\ IsSpace(s[j])
        THEN EndOfLine(s, SkipSpaces(s, j))
        ELSE 0
\*   \d+\.\s+.*
match_numbered(s, i) ==
    LET n == DigitRun(s, i)
        j == i + n
    IN  IF n >= 1 /\ j + 1 <= Len(s) /\ s[j] = "." /\ IsSpace(s[j + 1])
        THEN EndOfLine(s, SkipSpaces(s, j + 1))
        ELSE 0
\*   [A-Z][A-Z\s]+:
match_label(s, i) ==
    LET n == IF IsUpper(s[i]) THEN CapsRun(s, i + 1) ELSE 0
        j == i + 1 + n
    IN  IF n >= 1 /\ j <= Len(s) /\ s[j] = ":"
        THEN j + 1
        ELSE 0

\* section_pattern = (?m)^(#{1,6}\s+.*|^\d+\.\s+.*|^[A-Z][A-Z\s]+:) at position i
section_pattern(s, i) ==
    IF ~AtLineStart(s, i) THEN 0
    ELSE IF s[i] = "#" THEN match_heading(s, i)
    ELSE IF IsDigit(s[i]) THEN match_numbered(s, i)
    ELSE match_label(s, i)

\* re.split(section_pattern, content): the pattern has one capturing group, so
\* the list alternates text, delimiter, text, ..., text
RECURSIVE re_split_sections(_, _, _)
re_split_sections(s, i, start) ==
    IF i > Len(s) THEN <<SubSeq(s, start, Len(s))>>
    ELSE LET e == section_pattern(s, i)
         IN  IF e > 0
             THEN <<SubSeq(s, start, i - 1), SubSeq(s, i, e - 1)>>
                  \o re_split_sections(s, e, e)
             ELSE re_split_sections(s, i + 1, start)

\* the pairs of text and delimiter only, without the text after the last
\* delimiter
split_by_sections_pairs_only(text) ==
    LET sections == re_split_sections(text, 1, 1)
    IN  [k \in 1..(Len(sections) \div 2) |-> sections[2 * k - 1] \o sections[2 * k]]

\* SemanticChunker._split_by_sections
split_by_sections(text) ==
    LET sections == re_split_sections(text, 1, 1)
        n == Len(sections)
    IN  [k \in 1..((n + 1) \div 2) |->
            IF 2 * k <= n THEN sections[2 * k - 1] \o sections[2 * k]
            ELSE sections[2 * k - 1]]

\* re.split(r'(?<=[.!?])\s+', content)
RECURSIVE re_split_sentences(_, _, _)
re_split_sentences(s, i, start) ==
    IF i > Len(s) THEN <<SubSeq(s, start, Len(s))>>
    ELSE IF i > 1 /\ IsSentenceEnd(s[i - 1]) /\ IsSpace(s[i])
    THEN <<SubSeq(s, start, i - 1)>>
         \o re_split_sentences(s, SkipSpaces(s, i), SkipSpaces(s, i))
    ELSE re_split_sentences(s, i + 1, start)

\* the test of the packing loop of _split_by_sentences
fits_sentence_alone(test_chunk, sentence, max) == count_tokens(sentence) <= max
fits(test_chunk, sentence, max) == count_tokens(test_chunk) <= max

\* the loop of _split_by_sentences over sentences[k..], with current_chunk
RECURSIVE pack_sentences(_, _, _, _)
pack_sentences(sentences, k, current_chunk, max) ==
    IF k > Len(sentences)
    THEN IF current_chunk # <<>> THEN <<current_chunk>> ELSE <<>>
    ELSE LET sentence == sentences[k]
             test_chunk == IF current_chunk # <<>>
                           THEN current_chunk \o <<" ">> \o sentence
                           ELSE sentence
         IN  IF fits(test_chunk, sentence, max)
             THEN pack_sentences(sentences, k + 1, test_chunk, max)
             ELSE (IF current_chunk # <<>> THEN <<current_chunk>> ELSE <<>>)
                  \o pack_sentences(sentences, k + 1, sentence, max)

\* SemanticChunker._split_by_sentences
split_by_sentences(text, max) ==
    pack_sentences(re_split_sentences(text, 1, 1), 1, <<>>, max)

\* [chunk for chunk in chunks if chunk.strip()]: the chunks left as they are
drop_without_strip(cs) == SelectSeq(cs, LAMBDA c : strip(c) # <<>>)
\* [chunk.strip() for chunk in chunks if chunk.strip()]
strip_and_drop(cs) ==
    SelectSeq([k \in 1..Len(cs) |-> strip(cs[k])], LAMBDA c : c # <<>>)

\* SemanticChunker.chunk, for a chunker constructed with max_tokens = max
SemanticChunker_chunk(text, max) ==
    LET sections == split_by_sections(text)
    IN  strip_and_drop(Flatten([k \in 1..Len(sections) |->
            IF count_tokens(sections[k]) <= max
            THEN <<sections[k]>>
            ELSE split_by_sentences(sections[k], max)]))

(***************************************************************************)
(* CodeAwareChunker                                                        *)
(***************************************************************************)
\* the positions of fence markers at or after i
FencesFrom(s, i) == {j \in i..Len(s) : s[j] = "FENCE"}

\* CodeAwareChunker._extract_code_blocks: re.findall(r'```[\s\S]*?```', content)
\* from position i on; a block runs from a fence to the nearest later fence
RECURSIVE extract_code_blocks(_, _)
extract_code_blocks(s, i) ==
    LET fs == FencesFrom(s, i)
    IN  IF Cardinality(fs) < 2 THEN <<>>
        ELSE LET open == SetMin(fs)
                 close == SetMin(fs \ {open})
             IN  <<SubSeq(s, open, close)>> \o extract_code_blocks(s, close + 1)

\* re.split(r'```[\s\S]*?```', content) from position i on
RECURSIVE split_on_code_blocks(_, _)
split_on_code_blocks(s, i) ==
    LET fs == FencesFrom(s, i)
    IN  IF Cardinality(fs) < 2 THEN <<Suffix(s, i)>>
        ELSE LET open == SetMin(fs)
                 close == SetMin(fs \ {open})
             IN  <<SubSeq(s, i, open - 1)>> \o split_on_code_blocks(s, close + 1)

\* re.sub(r'^```.*\n|```$', '', code_block, flags=re.MULTILINE) from position i on
RECURSIVE remove_fence_markers(_, _)
remove_fence_markers(s, i) ==
    IF i > Len(s) THEN <<>>
    ELSE IF s[i] = "FENCE" /\ AtLineStart(s, i) /\ EndOfLine(s, i) <= Len(s)
    THEN remove_fence_markers(s, EndOfLine(s, i) + 1)
    ELSE IF s[i] = "FENCE" /\ (i = Len(s) \/ s[i + 1] = "\n")
    THEN remove_fence_markers(s, i + 1)
    ELSE <<s[i]>> \o remove_fence_markers(s, i + 1)

\* the same patterns with the class pattern tried first
decl_keywords_class_first == <<"class", "def", "function", "public">>
\* the keywords of the four declaration patterns, in the order of the list
decl_keywords == <<"def", "class", "function", "public">>

\* (?m)^kw\s+ matches at i (the lookahead of a declaration pattern)
decl_boundary(s, kw, i) ==
    /\ i + 1 <= Len(s)
    /\ AtLineStart(s, i)
    /\ s[i] = kw
    /\ IsSpace(s[i + 1])
\* (?m)^kw\s+\w+ matches at i: the position one past the name, or 0
decl_head(s, kw, i) ==
    IF decl_boundary(s, kw, i)
       /\ SkipSpaces(s, i + 1) <= Len(s)
       /\ IsWord(s[SkipSpaces(s, i + 1)])
    THEN SkipSpaces(s, i + 1) + 1
    ELSE 0
\* where the lazy .*? of a declaration pattern stops: the first position at or
\* after from where the lookahead (?=^kw\s+|\Z) holds
RECURSIVE decl_end(_, _, _)
decl_end(s, kw, from) ==
    IF from > Len(s) \/ decl_boundary(s, kw, from) THEN from
    ELSE decl_end(s, kw, from + 1)

\* re.findall(r'(?m)^kw\s+\w+.*?(?=^kw\s+|\Z)', code_content, re.DOTALL) from i on
RECURSIVE findall_decl(_, _, _)
findall_decl(s, kw, i) ==
    IF i > Len(s) THEN <<>>
    ELSE IF decl_head(s, kw, i) > 0
    THEN LET e == decl_end(s, kw, decl_head(s, kw, i))
         IN  <<SubSeq(s, i, e - 1)>> \o findall_decl(s, kw, e)
    ELSE findall_decl(s, kw, i + 1)

\* the loop over patterns of _split_code_block: the matches of the first
\* pattern, from the k-th on, that has any
RECURSIVE first_matching_pattern(_, _)
first_matching_pattern(code_content, k) ==
    IF k > Len(decl_keywords) THEN <<>>
    ELSE IF findall_decl(code_content, decl_keywords[k], 1) # <<>>
    THEN findall_decl(code_content, decl_keywords[k], 1)
    ELSE first_matching_pattern(code_content, k + 1)

\* f"```\n{chunk}\n```"
fenced(chunk) == <<"FENCE", "\n">> \o chunk \o <<"\n", "FENCE">>

\* the line-by-line loop of _split_code_block over lines[k..], with current_chunk
RECURSIVE pack_lines(_, _, _, _)
pack_lines(lines, k, current_chunk, max) ==
    IF k > Len(lines)
    THEN IF current_chunk # <<>> THEN <<fenced(current_chunk)>> ELSE <<>>
    ELSE LET line == lines[k]
             test_chunk == IF current_chunk # <<>>
                           THEN current_chunk \o <<"\n">> \o line
                           ELSE line
         IN  IF count_tokens(test_chunk) <= max
             THEN pack_lines(lines, k + 1, test_chunk, max)
             ELSE (IF current_chunk # <<>> THEN <<fenced(current_chunk)>> ELSE <<>>)
                  \o pack_lines(lines, k + 1, line, max)

\* CodeAwareChunker._split_code_block
split_code_block(code_block, max) ==
    LET code_content == remove_fence_markers(code_block, 1)
        matches == first_matching_pattern(code_content, 1)
    IN  IF matches = <<>>
        THEN pack_lines(split_lines(code_content), 1, <<>>, max)
        ELSE [k \in 1..Len(matches) |-> fenced(matches[k])]

\* CodeAwareChunker._semantic_split
semantic_split(text, max) == SemanticChunker_chunk(text, max)

\* the code block appended whole, whatever its token count
code_block_whole(code_chunk, max) == <<code_chunk>>
\* what CodeAwareChunker.chunk does with one extracted code block
code_block_chunks(code_chunk, max) ==
    IF count_tokens(code_chunk) <= max
    THEN <<code_chunk>>
    ELSE split_code_block(code_chunk, max)

\* the chunks of all text parts first, then the chunks of all code blocks
CodeAwareChunker_chunk_blocks_last(text, max) ==
    LET code_blocks == extract_code_blocks(text, 1)
        parts == split_on_code_blocks(text, 1)
    IN  strip_and_drop(
            Flatten([i \in 1..Len(parts) |->
                IF strip(parts[i]) # <<>> THEN semantic_split(parts[i], max) ELSE <<>>])
            \o Flatten([i \in 1..Len(code_blocks) |->
                code_block_chunks(code_blocks[i], max)]))

\* CodeAwareChunker.chunk, for a chunker constructed with max_tokens = max
CodeAwareChunker_chunk(text, max) ==
    LET code_blocks == extract_code_blocks(text, 1)
        parts == split_on_code_blocks(text, 1)
    IN  strip_and_drop(Flatten([i \in 1..Len(parts) |->
            (IF strip(parts[i]) # <<>> THEN semantic_split(parts[i], max) ELSE <<>>)
            \o (IF i <= Len(code_blocks)
                THEN code_block_chunks(code_blocks[i], max)
                ELSE <<>>)]))

(***************************************************************************)
(* HierarchicalChunker                                                     *)
(***************************************************************************)
\* the value of header_match when the line is no header, and of current_section
\* while it is None
NoMatch == [level |-> -1, title |-> <<>>]
NoSection == [level |-> -1, title |-> <<>>, content |-> <<>>]

\* re.match(r'^(#{1,6})\s+(.+)$', line) on a stripped line: the level and the
\* title, or NoMatch
header_match(line) ==
    LET k == HashRun(line, 1)
    IN  IF k >= 1 /\ k <= 6 /\ k + 1 <= Len(line) /\ IsSpace(line[k + 1])
           /\ SkipSpaces(line, k + 1) <= Len(line)
        THEN [level |-> k, title |-> Suffix(line, SkipSpaces(line, k + 1))]
        ELSE NoMatch

\* the same loop, opening an Introduction section for every line that has no
\* heading before it
RECURSIVE parse_lines_new_introduction(_, _, _, _)
parse_lines_new_introduction(lines, k, structure, current_section) ==
    IF k > Len(lines)
    THEN IF current_section # NoSection THEN Append(structure, current_section)
         ELSE structure
    ELSE LET line == strip(lines[k])
             header == header_match(line)
         IN  IF line = <<>>
             THEN parse_lines_new_introduction(lines, k + 1, structure,
                                               current_section)
             ELSE IF header # NoMatch
             THEN parse_lines_new_introduction(lines, k + 1,
                      IF current_section # NoSection
                      THEN Append(structure, current_section) ELSE structure,
                      [level |-> header.level, title |-> header.title,
                       content |-> <<>>])
             ELSE IF current_section # NoSection
             THEN parse_lines_new_introduction(lines, k + 1, structure,
                      [current_section EXCEPT !.content = Append(@, line)])
             ELSE parse_lines_new_introduction(lines, k + 1,
                      Append(structure,
                             [level |-> 0, title |-> <<"Introduction">>,
                              content |-> <<line>>]),
                      current_section)

\* the loop of _parse_structure over lines[k..]
RECURSIVE parse_lines(_, _, _, _)
parse_lines(lines, k, structure, current_section) ==
    IF k > Len(lines)
    THEN IF current_section # NoSection THEN Append(structure, current_section)
         ELSE structure
    ELSE LET line == strip(lines[k])
             header == header_match(line)
             n == Len(structure)
         IN  IF line = <<>>
             THEN parse_lines(lines, k + 1, structure, current_section)
             ELSE IF header # NoMatch
             THEN parse_lines(lines, k + 1,
                      IF current_section # NoSection
                      THEN Append(structure, current_section) ELSE structure,
                      [level |-> header.level, title |-> header.title,
                       content |-> <<>>])
             ELSE IF current_section # NoSection
             THEN parse_lines(lines, k + 1, structure,
                      [current_section EXCEPT !.content = Append(@, line)])
             ELSE IF structure = <<>> \/ structure[n].level # 0
             THEN parse_lines(lines, k + 1,
                      Append(structure,
                             [level |-> 0, title |-> <<"Introduction">>,
                              content |-> <<line>>]),
                      current_section)
             ELSE parse_lines(lines, k + 1,
                      [structure EXCEPT ![n].content = Append(@, line)],
                      current_section)

\* HierarchicalChunker._parse_structure
parse_structure(text) == parse_lines(split_lines(text), 1, <<>>, NoSection)

\* str.split('\n\n')
RECURSIVE FirstBlankLine(_, _)
FirstBlankLine(s, i) ==
    IF i + 1 > Len(s) THEN 0
    ELSE IF s[i] = "\n" /\ s[i + 1] = "\n" THEN i
    ELSE FirstBlankLine(s, i + 1)
RECURSIVE split_paragraphs(_)
split_paragraphs(s) ==
    LET at == FirstBlankLine(s, 1)
    IN  IF at = 0 THEN <<s>>
        ELSE <<SubSeq(s, 1, at - 1)>> \o split_paragraphs(Suffix(s, at + 2))

\* f"# {title}\n\n"
title_prefix(title) == <<"#", " ">> \o title \o <<"\n", "\n">>

\* the same loop, appending current_chunk without looking whether it is the
\* title prefix alone
RECURSIVE pack_parts_unguarded(_, _, _, _, _)
pack_parts_unguarded(parts, k, current_chunk, title, max) ==
    IF k > Len(parts)
    THEN <<strip(current_chunk)>>
    ELSE LET test_chunk == current_chunk \o parts[k] \o <<"\n", "\n">>
         IN  IF count_tokens(test_chunk) <= max
             THEN pack_parts_unguarded(parts, k + 1, test_chunk, title, max)
             ELSE <<strip(current_chunk)>>
                  \o pack_parts_unguarded(parts, k + 1,
                          title_prefix(title) \o parts[k] \o <<"\n", "\n">>,
                          title, max)

\* the loop of _chunk_section over content_parts[k..], with current_chunk
RECURSIVE pack_parts(_, _, _, _, _)
pack_parts(parts, k, current_chunk, title, max) ==
    IF k > Len(parts)
    THEN IF current_chunk # title_prefix(title) THEN <<strip(current_chunk)>>
         ELSE <<>>
    ELSE LET test_chunk == current_chunk \o parts[k] \o <<"\n", "\n">>
         IN  IF count_tokens(test_chunk) <= max
             THEN pack_parts(parts, k + 1, test_chunk, title, max)
             ELSE (IF current_chunk # title_prefix(title)
                   THEN <<strip(current_chunk)>> ELSE <<>>)
                  \o pack_parts(parts, k + 1,
                                title_prefix(title) \o parts[k] \o <<"\n", "\n">>,
                                title, max)

\* HierarchicalChunker._chunk_section
chunk_section(section, max) ==
    LET title == section.title
        body == Join(section.content, <<"\n">>)
        full_content == title_prefix(title) \o body
    IN  IF count_tokens(full_content) <= max
        THEN <<full_content>>
        ELSE pack_parts(split_paragraphs(body), 1, title_prefix(title), title, max)

\* HierarchicalChunker.chunk, for a chunker constructed with max_tokens = max
HierarchicalChunker_chunk(text, max) ==
    LET structure == parse_structure(text)
    IN  Flatten([k \in 1..Len(structure) |-> chunk_section(structure[k], max)])

(***************************************************************************)
(* IntelligentChunker                                                      *)
(***************************************************************************)
DefaultMaxTokens == 512
FixedSizeMaxTokens == 256

\* self.chunkers
chunkers ==
    ("semantic" :> [class |-> "SemanticChunker", max_tokens |-> DefaultMaxTokens])
    @@ ("code_aware" :> [class |-> "CodeAwareChunker", max_tokens |-> DefaultMaxTokens])
    @@ ("hierarchical" :> [class |-> "HierarchicalChunker", max_tokens |-> DefaultMaxTokens])
    @@ ("fixed_size" :> [class |-> "SemanticChunker", max_tokens |-> FixedSizeMaxTokens])

\* the table with the entry of POLICY pointing at the semantic strategy
strategy_map_policy_semantic ==
    ("technical_doc" :> "hierarchical")
    @@ ("support_ticket" :> "semantic")
    @@ ("api_reference" :> "code_aware")
    @@ ("policy" :> "semantic")
    @@ ("tutorial" :> "hierarchical")
    @@ ("code" :> "code_aware")
    @@ ("unknown" :> "semantic")

\* self.strategy_map
strategy_map ==
    ("technical_doc" :> "hierarchical")
    @@ ("support_ticket" :> "semantic")
    @@ ("api_reference" :> "code_aware")
    @@ ("policy" :> "hierarchical")
    @@ ("tutorial" :> "hierarchical")
    @@ ("code" :> "code_aware")
    @@ ("unknown" :> "semantic")

\* chunker.chunk(content, doc_type): the method of the chunker's class
chunker_chunk(c, text) ==
    CASE c.class = "SemanticChunker" -> SemanticChunker_chunk(text, c.max_tokens)
      [] c.class = "CodeAwareChunker" -> CodeAwareChunker_chunk(text, c.max_tokens)
      [] c.class = "HierarchicalChunker" -> HierarchicalChunker_chunk(text, c.max_tokens)

\* The symbols of the texts, in a fixed order: the code of a symbol is its place.
Alphabet == <<" ", "\n", "#", ".", ":", "FENCE", "a", "A", "1", "def", "class",
              "function", "public", "import", "api", "system", "bug", "must",
              "guide", "Introduction", "SPECIAL">>
SymbolCode(c) ==
    IF \E i \in 1..Len(Alphabet) : Alphabet[i] = c
    THEN CHOOSE i \in 1..Len(Alphabet) : Alphabet[i] = c
    ELSE 0
\* hashlib.md5(content.encode()).hexdigest()[:8]: a fixed number of bits computed
\* from the whole text, here 16 bits by a polynomial hash of the symbol codes
HashModulus == 65536

RECURSIVE digest(_, _)
digest(text, h) ==
    IF text = <<>> THEN h
    ELSE digest(Tail(text), (h * 31 + SymbolCode(Head(text)) + 1) % HashModulus)
\* hexdigest(): the digits of a hash value, four hexadecimal digits for 16 bits
HexDigits == <<"0", "1", "2", "3", "4", "5", "6", "7", "8", "9",
               "a", "b", "c", "d", "e", "f">>
hexdigest(n) ==
    <<HexDigits[((n \div 4096) % 16) + 1], HexDigits[((n \div 256) % 16) + 1],
      HexDigits[((n \div 16) % 16) + 1], HexDigits[(n % 16) + 1]>>
\* the first eight hexadecimal digits of the digest of the text
md5_hex8(text) == hexdigest(digest(text, 7)) \o hexdigest(digest(text, 11))

\* doc_id when the caller gives none
NoDocId == <<None>>
\* section_title when no line of the chunk starts with '#'
NoTitle == <<None>>

\* str.lstrip('#')
lstrip_hash(line) == Suffix(line, 1 + HashRun(line, 1))

\* the title read from the first line of the chunk only
extract_section_title_first_line(chunk) ==
    LET line == strip(split_lines(chunk)[1])
    IN  IF line # <<>> /\ Head(line) = "#" THEN strip(lstrip_hash(line))
        ELSE NoTitle

\* IntelligentChunker._extract_section_title
extract_section_title(chunk) ==
    LET lines == split_lines(chunk)
        marked == {k \in 1..Len(lines) :
                     strip(lines[k]) # <<>> /\ Head(strip(lines[k])) = "#"}
    IN  IF marked = {} THEN NoTitle
        ELSE strip(lstrip_hash(strip(lines[SetMin(marked)])))

\* "if doc_id is None": only None is replaced by the hash
document_id_only_none(id, text) == IF id = NoDocId THEN md5_hex8(text) ELSE id
\* "if not doc_id": None and the empty string are both replaced by the hash
document_id(id, text) == IF id = NoDocId \/ id = <<>> THEN md5_hex8(text) ELSE id

\* the index enumerate() gives the i-th chunk (i counted from 1 here)
chunk_index_from_one(i) == i
chunk_index(i) == i - 1

\* str(n) of the f-strings: the decimal digits of n >= 0
RECURSIVE str_int(_)
str_int(n) ==
    IF n < 10 THEN <<HexDigits[n + 1]>>
    ELSE str_int(n \div 10) \o <<HexDigits[(n % 10) + 1]>>

\* f"{doc_id}_chunk_{i}"
chunk_id_without_index(id, i) == id \o <<"_", "c", "h", "u", "n", "k", "_">>
chunk_id(id, i) == id \o <<"_", "c", "h", "u", "n", "k", "_">> \o str_int(i)

\* the metadata list of process_document
chunk_metadata(id, cs) ==
    [i \in 1..Len(cs) |->
        [chunk_id |-> chunk_id(id, chunk_index(i)),
         chunk_index |-> chunk_index(i),
         token_count |-> count_tokens(cs[i]),
         section_title |-> extract_section_title(cs[i])]]

\* the dictionary process_document returns
process_document_result(id, type, strat, cs, now) ==
    [document_id |-> id,
     document_type |-> type,
     chunking_strategy |-> strat,
     chunks |-> cs,
     metadata |-> chunk_metadata(id, cs),
     total_chunks |-> Len(cs),
     processing_timestamp |-> now]

\* IntelligentChunker(): the classifier's patterns, the chunkers and the
\* strategy map, the only attributes the orchestrator has
IntelligentChunker_init ==
    [patterns |-> patterns, chunkers |-> chunkers, strategy_map |-> strategy_map]

(***************************************************************************)
(* Inputs                                                                  *)
(***************************************************************************)
\* most pieces in a document given to the /chunk endpoint
MaxPieces == 3

\* all concatenations of at most n pieces
RECURSIVE Concatenations(_, _)
Concatenations(pieces, n) ==
    IF n = 0 THEN {<<>>}
    ELSE LET shorter == Concatenations(pieces, n - 1)
         IN  shorter \cup {d \o p : d \in shorter, p \in pieces}

\* fragments of documents: a heading line, a two-word sentence, a blank line, a
\* fence marker, a support-ticket sentence, a technical line of four words, the
\* text of a special token
DocumentPieces ==
    { <<"#", " ", "A", "\n">>,
      <<"a", " ", "a", ".", " ">>,
      <<"\n">>,
      <<"FENCE">>,
      <<"bug", " ", "bug", " ", "bug", ".", " ">>,
      <<"system", " ", "system", " ", "system", " ", "system", "\n">>,
      <<"SPECIAL">> }
Documents == Concatenations(DocumentPieces, MaxPieces)

\* filenames: none, and one for each filename rule of classify
RequestFilenames ==
    { <<>>,
      <<"m", "a", "i", "n", ".", "p", "y">>,
      <<"A", "P", "I", ".", "m", "d">>,
      <<"p", "o", "l", "i", "c", "y">>,
      <<"g", "u", "i", "d", "e">> }
RequestDocIds == { NoDocId, <<>>, <<"d", "1">> }
\* datetime.now().isoformat()
Timestamps == {"t1", "t2"}

\* the files of the POST /chunk-file requests: their bytes, as the symbols they
\* encode, "BADBYTE" for a byte that is not valid UTF-8
UploadData ==
    { <<>>,
      <<"a", " ", "a", ".", " ">>,
      <<"BADBYTE">>,
      <<"#", " ", "A", "\n", "a", " ", "a", ".", " ", "BADBYTE">>,
      <<"#", " ", "A", "\n", "a", " ", "a", ".", " ", "SPECIAL">>,
      <<"def", " ", "a", "\n">> }
Uploads ==
    {[data |-> d, filename |-> f] :
        d \in UploadData, f \in {<<>>, <<"m", "a", "i", "n", ".", "p", "y">>}}
\* content.decode('utf-8') raises UnicodeDecodeError on an invalid byte
decode_raises(data) == \E i \in 1..Len(data) : data[i] = "BADBYTE"
\* the decoded text of valid bytes: the symbols they encode
decode_utf8(data) == SelectSeq(data, LAMBDA b : b # "BADBYTE")

\* the bodies of the POST /chunk requests
Requests ==
    {[content |-> d, filename |-> f, document_id |-> NoDocId] :
        d \in Documents, f \in RequestFilenames}
    \cup {[content |-> d, filename |-> <<>>, document_id |-> i] :
        d \in Documents, i \in RequestDocIds}

(***************************************************************************)
(* The /chunk endpoint on the global chunker                               *)
(***************************************************************************)
Init ==
    /\ pc = "idle"
    /\ content = <<>>
    /\ filename = <<>>
    /\ doc_id = NoDocId
    /\ doc_type = None
    /\ strategy = None
    /\ chunker = None
    /\ chunks = <<>>
    /\ result = None
    /\ response = None
    /\ orchestrator = IntelligentChunker_init
    /\ calls = <<>>

\* a POST /chunk request arrives (DocumentRequest)
Receive ==
    /\ pc = "idle"
    /\ \E req \in Requests :
        /\ content' = req.content
        /\ filename' = req.filename
        /\ doc_id' = req.document_id
    /\ pc' = "received"
    /\ doc_type' = None
    /\ strategy' = None
    /\ chunker' = None
    /\ chunks' = <<>>
    /\ result' = None
    /\ response' = None
    /\ UNCHANGED <<orchestrator, calls>>

\* raise HTTPException(status_code=500, detail=str(e)): the only thing the
\* caller gets when a step raised
empty_result_response(detail) ==
    [status_code |-> 200,
     body |-> [document_id |-> <<>>, document_type |-> "unknown",
               chunking_strategy |-> "semantic", chunks |-> <<>>, metadata |-> <<>>,
               total_chunks |-> 0, processing_timestamp |-> detail]]
http_exception(detail) == [status_code |-> 500, detail |-> detail]

\* chunker.process_document(text, name, id) inside the try block of an endpoint,
\* and the endpoint's answer.  Every chunker counts the tokens of every
\* non-blank part of the text, so a text with a special token makes encode
\* raise during chunking: nothing is returned and the except branch answers.
\* Otherwise the result is returned whole in ChunkingResponse(**result).
ProcessDocument(text, name, id) ==
    /\ doc_type' = classify(text, name)
    /\ strategy' = orchestrator.strategy_map[doc_type']
    /\ chunker' = orchestrator.chunkers[strategy']
    /\ IF encode_raises(text)
       THEN /\ chunks' = <<>>
            /\ result' = None
            /\ response' = http_exception("ValueError")
       ELSE /\ chunks' = chunker_chunk(chunker', text)
            /\ \E now \in Timestamps :
                result' = process_document_result(document_id(id, text), doc_type',
                                                  strategy', chunks', now)
            /\ response' = [status_code |-> 200, body |-> result']

\* chunk_document
ChunkDocument ==
    /\ pc = "received"
    /\ ProcessDocument(content, filename, doc_id)
    /\ pc' = "done"
    /\ UNCHANGED <<content, filename, doc_id, orchestrator, calls>>

\* a POST /chunk-file request arrives (UploadFile)
ReceiveFile ==
    /\ pc = "idle"
    /\ \E file \in Uploads :
        /\ content' = file.data
        /\ filename' = file.filename
    /\ doc_id' = NoDocId
    /\ pc' = "file_received"
    /\ doc_type' = None
    /\ strategy' = None
    /\ chunker' = None
    /\ chunks' = <<>>
    /\ result' = None
    /\ response' = None
    /\ UNCHANGED <<orchestrator, calls>>

\* chunk_file: decode the bytes, then process_document with no doc_id
ChunkFile ==
    /\ pc = "file_received"
    /\ IF decode_raises(content)
       THEN /\ response' = http_exception("UnicodeDecodeError")
            /\ UNCHANGED <<doc_type, strategy, chunker, chunks, result>>
       ELSE ProcessDocument(decode_utf8(content), filename, NoDocId)
    /\ pc' = "done"
    /\ UNCHANGED <<content, filename, doc_id, orchestrator, calls>>

\* the response has been sent; the server waits for the next request
Finish ==
    /\ pc = "done"
    /\ pc' = "idle"
    /\ content' = <<>>
    /\ filename' = <<>>
    /\ doc_id' = NoDocId
    /\ doc_type' = None
    /\ strategy' = None
    /\ chunker' = None
    /\ chunks' = <<>>
    /\ result' = None
    /\ response' = None
    /\ UNCHANGED <<orchestrator, calls>>

Next == Receive \/ ChunkDocument \/ ReceiveFile \/ ChunkFile \/ Finish

Spec == Init /\ [][Next]_vars

(***************************************************************************)
(* DocumentClassifier.classify on its own                                  *)
(***************************************************************************)
\* one keyword of each scored genre, in the order of self.patterns; "class"
\* is matched by two of the patterns of CODE
ClassifyWords == <<"api", "system", "bug", "must", "guide", "class">>

\* the non-decreasing sequences of at most n word numbers, none below lo
RECURSIVE SortedWords(_, _)
SortedWords(n, lo) ==
    IF n = 0 THEN {<<>>}
    ELSE {<<>>} \cup UNION {{<<w>> \o rest : rest \in SortedWords(n - 1, w)} :
                              w \in lo..Len(ClassifyWords)}

\* the words, separated by single spaces
WordsText(ws) == Join([i \in 1..Len(ws) |-> <<ClassifyWords[ws[i]]>>], <<" ">>)

\* contents of at most MaxWords keywords
ClassifyContents == {WordsText(ws) : ws \in SortedWords(MaxWords, 1)}
\* contents of at most three keywords
ShortContents == {WordsText(ws) : ws \in SortedWords(3, 1)}

ClassifyFilenames ==
    { <<>>,
      <<"n", "o", "t", "e", "s", ".", "t", "x", "t">>,
      <<"m", "a", "i", "n", ".", "p", "y">>,
      <<"a", "p", "i", ".", "p", "y">>,
      <<"A", "P", "I", "_", "p", "o", "l", "i", "c", "y">>,
      <<"p", "o", "l", "i", "c", "y", "_", "g", "u", "i", "d", "e">>,
      <<"g", "u", "i", "d", "e", ".", "s", "q", "l">>,
      <<"s", "w", "a", "g", "g", "e", "r">>,
      <<"P", "r", "o", "c", "e", "d", "u", "r", "e">>,
      <<"t", "u", "t", "o", "r", "i", "a", "l">>,
      <<"d", "a", "t", "a", ".", "j", "s", "o", "n">> }

ClassifyInputs ==
    (ClassifyContents \X {<<>>, <<"n", "o", "t", "e", "s", ".", "t", "x", "t">>})
    \cup (ShortContents \X ClassifyFilenames)

InitClassify ==
    /\ pc = "classify"
    /\ \E input \in ClassifyInputs :
        /\ content = input[1]
        /\ filename = input[2]
    /\ doc_id = NoDocId
    /\ doc_type = None
    /\ strategy = None
    /\ chunker = None
    /\ chunks = <<>>
    /\ result = None
    /\ response = None
    /\ orchestrator = IntelligentChunker_init
    /\ calls = <<>>

\* self.classifier.classify(content, filename)
ClassifyCall ==
    /\ pc = "classify"
    /\ doc_type' = classify(content, filename)
    /\ pc' = "classified"
    /\ UNCHANGED <<content, filename, doc_id, strategy, chunker, chunks, result,
                   response, orchestrator, calls>>

NextClassify == ClassifyCall

SpecClassify == InitClassify /\ [][NextClassify]_vars

(***************************************************************************)
(* The chunkers on their own                                               *)
(***************************************************************************)
\* most pieces in a document given to one chunker
MaxChunkerPieces == 4

\* a sentence, two words without end, a newline, a heading line, a numbered
\* header line, an all-caps label
SemanticPieces ==
    { <<"a", ".", " ">>,
      <<"a", " ", "a", " ">>,
      <<"\n">>,
      <<"#", " ", "A", "\n">>,
      <<"1", ".", " ", "a", "\n">>,
      <<"A", "A", ":", " ">> }
SemanticDocuments == Concatenations(SemanticPieces, MaxChunkerPieces)

\* a heading line, a two-word line, a one-word line, a blank line
HierarchicalPieces ==
    { <<"#", " ", "A", "\n">>,
      <<"a", " ", "a", "\n">>,
      <<"a", "\n">>,
      <<"\n">>,
      <<"#", "#", " ", "a", " ", "a", " ", "a", " ", "a", "\n">> }
HierarchicalDocuments == Concatenations(HierarchicalPieces, MaxChunkerPieces)

\* an opening fence line, a closing fence, an import line, a declaration line
\* for each of the four patterns, a line of prose
CodePieces ==
    { <<"FENCE", "\n">>,
      <<"FENCE">>,
      <<"import", " ", "a", "\n">>,
      <<"def", " ", "a", "\n">>,
      <<"class", " ", "a", "\n">>,
      <<"function", " ", "a", "\n">>,
      <<"public", " ", "a", "\n">>,
      <<"a", ".", "\n">> }
CodeDocuments == Concatenations(CodePieces, MaxChunkerPieces)

InitChunker(docs, cs) ==
    /\ pc = "chunk"
    /\ content \in docs
    /\ chunker \in cs
    /\ filename = <<>>
    /\ doc_id = NoDocId
    /\ doc_type = None
    /\ strategy = None
    /\ chunks = <<>>
    /\ result = None
    /\ response = None
    /\ orchestrator = IntelligentChunker_init
    /\ calls = <<>>

\* chunker.chunk(content, doc_type)
ChunkCall ==
    /\ pc = "chunk"
    /\ chunks' = chunker_chunk(chunker, content)
    /\ pc' = "chunked"
    /\ UNCHANGED <<content, filename, doc_id, doc_type, strategy, chunker, result,
                   response, orchestrator, calls>>

NextChunker == ChunkCall

\* SemanticChunker() and SemanticChunker(max_tokens=256)
InitSemantic ==
    InitChunker(SemanticDocuments, {chunkers["semantic"], chunkers["fixed_size"]})
SpecSemantic == InitSemantic /\ [][NextChunker]_vars

\* HierarchicalChunker()
InitHierarchical == InitChunker(HierarchicalDocuments, {chunkers["hierarchical"]})
SpecHierarchical == InitHierarchical /\ [][NextChunker]_vars

\* CodeAwareChunker()
InitCodeAware == InitChunker(CodeDocuments, {chunkers["code_aware"]})
SpecCodeAware == InitCodeAware /\ [][NextChunker]_vars

(***************************************************************************)
(* Several process_document calls at once on the global chunker.  A call   *)
(* keeps its arguments and local variables in its own record; what it      *)
(* reads of the orchestrator it reads from the shared variable at the      *)
(* moment of the step.  The steps of different calls interleave freely.    *)
(***************************************************************************)
\* most calls in progress at the same time
MaxCalls == 2
CallIds == 1..MaxCalls

\* a text of three one-word sentences: one chunk with 512 tokens, three with 256
ThreeSentences == <<"a", ".", " ", "a", ".", " ", "a", ".", " ">>
\* the arguments of the calls: the same content with and without a filename,
\* with no id and with the empty id, and a headed text with the caller's id
ConcurrentRequests ==
    { [content |-> ThreeSentences, filename |-> <<>>, document_id |-> NoDocId],
      [content |-> ThreeSentences, filename |-> <<"A", "P", "I", ".", "m", "d">>,
       document_id |-> NoDocId],
      [content |-> ThreeSentences, filename |-> <<>>, document_id |-> <<>>],
      [content |-> <<"#", " ", "A", "\n", "a", ".", " ">>,
       filename |-> <<"p", "o", "l", "i", "c", "y">>,
       document_id |-> <<"d", "1">>] }

\* a call slot with no call in it
NoCall ==
    [pc |-> "idle", content |-> <<>>, filename |-> <<>>, doc_id |-> NoDocId,
     document_id |-> NoDocId, doc_type |-> None, strategy |-> None,
     chunks |-> <<>>, result |-> None]

\* self.classifier.classify(content, filename), reading the orchestrator's patterns
classify_in(o, text, name) ==
    LET by_name == filename_rule(name)
        sc == [k \in 1..Len(o.patterns) |-> score_of(o.patterns[k], text)]
        best == best_type(sc)
    IN  IF by_name # None THEN by_name
        ELSE IF confident(sc[best]) THEN o.patterns[best].doc_type
        ELSE "unknown"

\* Each step of process_document, as what it makes of the orchestrator o and of
\* the call c.  No statement of process_document, of classify or of a chunker
\* assigns an attribute of self or changes a table: o is returned as it was.

\* doc_id = md5(...)[:8] if not doc_id; doc_type = self.classifier.classify(...)
classify_step(o, c) ==
    [orchestrator |-> o,
     call |-> [c EXCEPT !.document_id = document_id(c.doc_id, c.content),
                        !.doc_type = classify_in(o, c.content, c.filename),
                        !.pc = "classified"]]

\* strategy = self.strategy_map[doc_type]; chunker = self.chunkers[strategy]
select_step(o, c) ==
    [orchestrator |-> o,
     call |-> [c EXCEPT !.strategy = o.strategy_map[c.doc_type],
                        !.pc = "selected"]]

\* a chunker that lowers its own max_tokens to the fixed-size budget when it
\* has chunked a document
chunk_step_lowering_budget(o, c) ==
    [orchestrator |->
        [o EXCEPT !.chunkers[c.strategy].max_tokens = FixedSizeMaxTokens],
     call |-> [c EXCEPT !.chunks = chunker_chunk(o.chunkers[c.strategy], c.content),
                        !.pc = "chunked"]]
\* chunks = chunker.chunk(content, doc_type), chunker the shared object
chunk_step(o, c) ==
    [orchestrator |-> o,
     call |-> [c EXCEPT !.chunks = chunker_chunk(o.chunkers[c.strategy], c.content),
                        !.pc = "chunked"]]

\* the metadata loop and the returned dictionary
return_step(o, c, now) ==
    [orchestrator |-> o,
     call |-> [c EXCEPT !.result = process_document_result(c.document_id, c.doc_type,
                                        c.strategy, c.chunks, now),
                        !.pc = "done"]]

InitConcurrent ==
    /\ pc = "concurrent"
    /\ content = <<>>
    /\ filename = <<>>
    /\ doc_id = NoDocId
    /\ doc_type = None
    /\ strategy = None
    /\ chunker = None
    /\ chunks = <<>>
    /\ result = None
    /\ response = None
    /\ orchestrator = IntelligentChunker_init
    /\ calls = [i \in CallIds |-> NoCall]

\* what a step leaves alone
OnlyCalls ==
    UNCHANGED <<content, filename, doc_id, pc, doc_type, strategy, chunker, chunks,
                result, response>>

\* chunker.process_document(content, filename, doc_id) is called
CallBegin(i) ==
    /\ calls[i].pc = "idle"
    /\ \E req \in ConcurrentRequests :
        calls' = [calls EXCEPT ![i] = [NoCall EXCEPT !.pc = "begun",
                                                     !.content = req.content,
                                                     !.filename = req.filename,
                                                     !.doc_id = req.document_id]]
    /\ UNCHANGED orchestrator
    /\ OnlyCalls

CallClassify(i) ==
    /\ calls[i].pc = "begun"
    /\ orchestrator' = classify_step(orchestrator, calls[i]).orchestrator
    /\ calls' = [calls EXCEPT ![i] = classify_step(orchestrator, calls[i]).call]
    /\ OnlyCalls

CallSelect(i) ==
    /\ calls[i].pc = "classified"
    /\ orchestrator' = select_step(orchestrator, calls[i]).orchestrator
    /\ calls' = [calls EXCEPT ![i] = select_step(orchestrator, calls[i]).call]
    /\ OnlyCalls

CallChunk(i) ==
    /\ calls[i].pc = "selected"
    /\ orchestrator' = chunk_step(orchestrator, calls[i]).orchestrator
    /\ calls' = [calls EXCEPT ![i] = chunk_step(orchestrator, calls[i]).call]
    /\ OnlyCalls

CallReturn(i) ==
    /\ calls[i].pc = "chunked"
    /\ \E now \in Timestamps :
        /\ orchestrator' = return_step(orchestrator, calls[i], now).orchestrator
        /\ calls' = [calls EXCEPT ![i] = return_step(orchestrator, calls[i], now).call]
    /\ OnlyCalls

\* the caller has taken the result; the slot is free for a later call
CallEnd(i) ==
    /\ calls[i].pc = "done"
    /\ calls' = [calls EXCEPT ![i] = NoCall]
    /\ UNCHANGED orchestrator
    /\ OnlyCalls

NextConcurrent ==
    \E i \in CallIds :
        \/ CallBegin(i)
        \/ CallClassify(i)
        \/ CallSelect(i)
        \/ CallChunk(i)
        \/ CallReturn(i)
        \/ CallEnd(i)

SpecConcurrent == InitConcurrent /\ [][NextConcurrent]_vars

(***************************************************************************)
(* Properties                                                              *)
(***************************************************************************)

\* C1: in every result of process_document, chunks, metadata and total_chunks
\* have the same length, and the i-th metadata entry (counted from 0) has
\* chunk_index i: the indices are dense, 0-based and in the order of the chunks.
C1_MetadataParallel ==
    pc = "done" /\ response.status_code = 200 =>
        /\ Len(result.chunks) = Len(result.metadata)
        /\ Len(result.metadata) = result.total_chunks
        /\ \A i \in 1..Len(result.metadata) : result.metadata[i].chunk_index = i - 1
C1_Witness == pc = "done" /\ response.status_code = 200 /\ result.total_chunks >= 2

\* C2: a document with at least one non-whitespace character yields at least
\* one chunk, whichever of the strategies semantic, code_aware, hierarchical the
\* classification selects.
C2_NonEmptyYieldsChunk ==
    pc = "done" /\ response.status_code = 200 /\ strip(content) # <<>> =>
        /\ strategy \in {"semantic", "code_aware", "hierarchical"}
        /\ result.total_chunks >= 1
\* the non-blank lines of a text, stripped
StrippedLines(text) ==
    LET lines == split_lines(text)
    IN  {strip(lines[k]) : k \in {k \in 1..Len(lines) : strip(lines[k]) # <<>>}}

\* the lines of a fenced block between its delimiters: the text after the
\* opening fence line (after the opening fence when the block is one line) and
\* before the closing fence
InnerLines(block) ==
    LET lines == split_lines(SubSeq(block, 2, Len(block) - 1))
        inner == IF Len(lines) > 1 THEN Tail(lines) ELSE lines
    IN  {strip(inner[k]) : k \in {k \in 1..Len(inner) : strip(inner[k]) # <<>>}}

\* C3: under the code-aware strategy every fenced code block of the source
\* appears with its internal text inside one emitted chunk: some chunk has all
\* the lines of the block, none is dropped or left to another chunk.
C3_CodePreserved ==
    pc = "chunked" =>
        LET blocks == extract_code_blocks(content, 1)
        IN  \A b \in 1..Len(blocks) :
                \E i \in 1..Len(chunks) :
                    InnerLines(blocks[b]) \subseteq StrippedLines(chunks[i])

\* The paragraphs of the source, section by section: a heading line opens a
\* section, a blank line ends a paragraph.  acc is the sequence of sections,
\* each the sequence of its paragraphs, each the sequence of its lines.
RECURSIVE source_paragraphs(_, _, _, _)
source_paragraphs(lines, k, acc, break) ==
    IF k > Len(lines) THEN acc
    ELSE LET line == strip(lines[k])
             n == Len(acc)
         IN  IF line = <<>> THEN source_paragraphs(lines, k + 1, acc, TRUE)
             ELSE IF header_match(line) # NoMatch
             THEN source_paragraphs(lines, k + 1, Append(acc, <<>>), TRUE)
             ELSE IF n = 0
             THEN source_paragraphs(lines, k + 1, << <<<<line>>>> >>, FALSE)
             ELSE IF break \/ acc[n] = <<>>
             THEN source_paragraphs(lines, k + 1,
                      [acc EXCEPT ![n] = Append(@, <<line>>)], FALSE)
             ELSE source_paragraphs(lines, k + 1,
                      [acc EXCEPT ![n][Len(acc[n])] = Append(@, line)], FALSE)
SourceParagraphs(text) == source_paragraphs(split_lines(text), 1, <<>>, TRUE)

\* the lines of a chunk below its title line
BodyLines(chunk) ==
    LET lines == split_lines(chunk)
    IN  SelectSeq([k \in 1..(Len(lines) - 1) |-> strip(lines[k + 1])],
                  LAMBDA l : l # <<>>)
\* the different paragraphs among ps whose lines are consecutive lines of chunk
ParagraphsIn(chunk, ps) ==
    {ps[j] : j \in {j \in 1..Len(ps) : Contains(BodyLines(chunk), ps[j])}}

\* C4: every chunk of the hierarchical chunker that contains two or more
\* paragraphs of its source section has at most max_tokens tokens.
C4_ParagraphBudget ==
    pc = "chunked" =>
        LET structure == parse_structure(content)
            paragraphs == SourceParagraphs(content)
        IN  \A k \in 1..Len(structure) :
                LET section_chunks == chunk_section(structure[k], chunker.max_tokens)
                IN  \A j \in 1..Len(section_chunks) :
                        Cardinality(ParagraphsIn(section_chunks[j], paragraphs[k])) >= 2
                        => count_tokens(section_chunks[j]) <= chunker.max_tokens

\* the sentences of a text, as the sentence pattern splits it
SentenceCount(text) == Len(re_split_sentences(text, 1, 1))

\* C5: every chunk of the semantic chunker (max_tokens 512, or 256 for
\* fixed-size) that holds two or more sentences has at most max_tokens tokens;
\* only a chunk of one single sentence exceeds the budget.
C5_SentenceBudget ==
    pc = "chunked" =>
        \A i \in 1..Len(chunks) :
            SentenceCount(chunks[i]) >= 2
            => count_tokens(chunks[i]) <= chunker.max_tokens
\* an over-budget text split into a chunk of several sentences and another chunk
C5_Witness ==
    /\ pc = "chunked"
    /\ count_tokens(content) > chunker.max_tokens
    /\ Len(chunks) >= 2
    /\ \E i \in 1..Len(chunks) : SentenceCount(chunks[i]) >= 2

\* C6: a request whose content is the empty string ends in an error outcome;
\* no result is produced for it.
C6_EmptyContentRejected ==
    pc = "done" /\ content = <<>> => response.status_code >= 400

\* the genre -> strategy table as the specification states it
StaticTable(type) ==
    CASE type = "technical_doc" -> "hierarchical"
      [] type = "support_ticket" -> "semantic"
      [] type = "api_reference" -> "code_aware"
      [] type = "policy" -> "hierarchical"
      [] type = "tutorial" -> "hierarchical"
      [] type = "code" -> "code_aware"
      [] type = "unknown" -> "semantic"
\* the chunker class that implements a strategy
StrategyClass(strat) ==
    CASE strat = "semantic" -> "SemanticChunker"
      [] strat = "code_aware" -> "CodeAwareChunker"
      [] strat = "hierarchical" -> "HierarchicalChunker"
      [] strat = "fixed_size" -> "SemanticChunker"

ScoredGenres == {patterns[k].doc_type : k \in 1..Len(patterns)}
\* the total match count of a genre
GenreScore(type, text) ==
    score_of(patterns[CHOOSE k \in 1..Len(patterns) : patterns[k].doc_type = type], text)
MaxScore(text) == SetMax({GenreScore(type, text) : type \in ScoredGenres})
\* the genres whose score is the maximum
Tied(text) == {type \in ScoredGenres : GenreScore(type, text) = MaxScore(text)}
\* the element of a set of genres that comes first in an order
FirstIn(order, types) == order[SetMin({i \in 1..Len(order) : order[i] \in types})]
\* the order of the keys of the pattern table
PatternTableOrder ==
    <<"api_reference", "technical_doc", "support_ticket", "policy", "tutorial", "code">>

\* C8 as stated: with no filename rule matching and two or more genres tied for
\* a maximum score above 2, classify returns the tied genre that comes first in
\* the order of the DocumentType enumeration.
C8_EnumerationOrderTieBreak ==
    pc = "classified" /\ filename_rule(filename) = None
    /\ MaxScore(content) > 2 /\ Cardinality(Tied(content)) >= 2
    => doc_type = FirstIn(DocumentType, Tied(content))

\* C8 as amended: ... classify returns the tied genre that comes first in the
\* order of the pattern table: api_reference, technical_doc, support_ticket,
\* policy, tutorial, code.
C8_TableOrderTieBreak ==
    pc = "classified" /\ filename_rule(filename) = None
    /\ MaxScore(content) > 2 /\ Cardinality(Tied(content)) >= 2
    => doc_type = FirstIn(PatternTableOrder, Tied(content))
\* api_reference and technical_doc tied at the top
C8_Witness ==
    /\ pc = "classified"
    /\ filename_rule(filename) = None
    /\ MaxScore(content) > 2
    /\ {"api_reference", "technical_doc"} \subseteq Tied(content)
    /\ doc_type = "api_reference"

\* C9: with no filename rule matching, classify returns a genre whose score is
\* the maximum when that maximum is above 2, and UNKNOWN when it is 2 or less.
C9_ScoreGuard ==
    pc = "classified" /\ filename_rule(filename) = None =>
        IF MaxScore(content) > 2
        THEN doc_type \in ScoredGenres
             /\ GenreScore(doc_type, content) = MaxScore(content)
        ELSE doc_type = "unknown"
\* a winning score of exactly 3
C9_Witness ==
    /\ pc = "classified"
    /\ filename_rule(filename) = None
    /\ MaxScore(content) = 3
    /\ doc_type \in ScoredGenres

\* the lower-cased filename contains one of the words
NameHas(name, words) == \E w \in words : Contains(lower(name), w)

\* C10: the filename rules are tried in the order code extension, api/swagger,
\* policy/procedure, tutorial/guide; the first that matches decides the type
\* whatever the content; the content is scored only when none matches.  (What
\* makes a filename match the code-extension rule is the subject of C11; here
\* it is the test the code makes.)
C10_FilenamePriority ==
    pc = "classified" =>
        doc_type =
            IF NameHas(filename, code_exts) THEN "code"
            ELSE IF NameHas(filename, { <<"a", "p", "i">>,
                                        <<"s", "w", "a", "g", "g", "e", "r">> })
            THEN "api_reference"
            ELSE IF NameHas(filename, { <<"p", "o", "l", "i", "c", "y">>,
                                        <<"p", "r", "o", "c", "e", "d", "u", "r", "e">> })
            THEN "policy"
            ELSE IF NameHas(filename, { <<"t", "u", "t", "o", "r", "i", "a", "l">>,
                                        <<"g", "u", "i", "d", "e">> })
            THEN "tutorial"
            ELSE classify_content(content)
\* a filename that matches the first two rules, with a content that scores
\* above the guard for another genre
C10_Witness ==
    /\ pc = "classified"
    /\ NameHas(filename, code_exts)
    /\ NameHas(filename, { <<"a", "p", "i">> })
    /\ classify_content(content) = "support_ticket"
    /\ doc_type = "code"

\* os.path.splitext: the extension of a filename, from its last "." on
\* (lower-cased); empty when the name has no "."
RECURSIVE LastDot(_, _)
LastDot(name, i) == IF i < 1 \/ name[i] = "." THEN i ELSE LastDot(name, i - 1)
Extension(name) ==
    LET d == LastDot(name, Len(name))
    IN  IF d < 1 THEN <<>> ELSE lower(SubSeq(name, d, Len(name)))
\* the keywords of the other three filename rules
FilenameKeywords ==
    { <<"a", "p", "i">>, <<"s", "w", "a", "g", "g", "e", "r">>,
      <<"p", "o", "l", "i", "c", "y">>,
      <<"p", "r", "o", "c", "e", "d", "u", "r", "e">>,
      <<"t", "u", "t", "o", "r", "i", "a", "l">>, <<"g", "u", "i", "d", "e">> }

\* C11: a filename whose extension is none of .py, .js, .java, .cpp, .sql and
\* that holds none of the keywords is not decided by the filename rules: the
\* result of classify is the result of content scoring.
C11_OtherExtensionFallsThrough ==
    pc = "classified" /\ filename # <<>>
    /\ Extension(filename) \notin code_exts
    /\ ~NameHas(filename, FilenameKeywords)
    => doc_type = classify_content(content)

\* the calls that have returned
Returned == {i \in CallIds : calls[i].pc = "done"}
\* the caller gave no id: None, or the empty string
NoIdGiven(c) == c.doc_id = NoDocId \/ c.doc_id = <<>>
\* eight hexadecimal digits
IsHex8(id) ==
    /\ Len(id) = 8
    /\ \A k \in 1..8 : id[k] \in {"0", "1", "2", "3", "4", "5", "6", "7", "8", "9",
                                  "a", "b", "c", "d", "e", "f"}

\* C12: the document_id of a result is the caller's id when a non-empty one is
\* given; otherwise it is eight hexadecimal digits, the same for any two calls
\* with the same content whatever their filenames and whatever ran before.
C12_DocumentId ==
    /\ \A i \in Returned :
        IF NoIdGiven(calls[i])
        THEN IsHex8(calls[i].result.document_id)
        ELSE calls[i].result.document_id = calls[i].doc_id
    /\ \A i, j \in Returned :
        NoIdGiven(calls[i]) /\ NoIdGiven(calls[j])
        /\ calls[i].content = calls[j].content
        => calls[i].result.document_id = calls[j].result.document_id
\* two returned calls without id, same content, different filenames, and one
\* that gave the empty string as id
C12_Witness ==
    \E i, j \in Returned :
        /\ i # j
        /\ calls[i].doc_id = <<>>
        /\ calls[j].doc_id = NoDocId
        /\ calls[i].content = calls[j].content
        /\ calls[i].filename # calls[j].filename
        /\ calls[i].result.document_id = calls[j].result.document_id

\* the decimal numeral of a number below 100
DecimalDigits == <<"0", "1", "2", "3", "4", "5", "6", "7", "8", "9">>
Decimal(n) ==
    IF n < 10 THEN <<DecimalDigits[n + 1]>>
    ELSE <<DecimalDigits[(n \div 10) + 1], DecimalDigits[(n % 10) + 1]>>

\* C13: in a result, the chunk_id of the i-th metadata entry (counted from 0) is
\* the document_id followed by "_chunk_" and the numeral of i, and no two
\* entries of the result have the same chunk_id.
C13_ChunkIdUnique ==
    pc = "done" /\ response.status_code = 200 =>
        /\ \A i \in 1..Len(result.metadata) :
            result.metadata[i].chunk_id =
                result.document_id \o <<"_", "c", "h", "u", "n", "k", "_">>
                                   \o Decimal(i - 1)
        /\ \A i, j \in 1..Len(result.metadata) :
            i # j => result.metadata[i].chunk_id # result.metadata[j].chunk_id
\* a result of three chunks or more under a caller's id
C13_Witness ==
    /\ pc = "done"
    /\ response.status_code = 200
    /\ doc_id = <<"d", "1">>
    /\ Len(result.metadata) >= 3
    /\ result.metadata[3].chunk_id =
           <<"d", "1", "_", "c", "h", "u", "n", "k", "_", "2">>

\* two results are the same in every field but processing_timestamp
SameButTimestamp(r1, r2) ==
    /\ r1.document_id = r2.document_id
    /\ r1.document_type = r2.document_type
    /\ r1.chunking_strategy = r2.chunking_strategy
    /\ r1.chunks = r2.chunks
    /\ r1.metadata = r2.metadata
    /\ r1.total_chunks = r2.total_chunks
\* the result of one call running alone on a fresh orchestrator
Alone(c) ==
    LET type == classify(c.content, c.filename)
        strat == strategy_map[type]
    IN  process_document_result(document_id(c.doc_id, c.content), type, strat,
                                chunker_chunk(chunkers[strat], c.content),
                                c.result.processing_timestamp)

\* C14: however the steps of the calls on the shared orchestrator interleave,
\* the orchestrator's patterns, strategy map, chunker table and budgets stay as
\* constructed, and the result of a call, its timestamp aside, is decided by
\* its own content, filename and doc_id: it is the result of the call running
\* alone, and equal to that of any other call with the same arguments.
C14_Stateless ==
    /\ orchestrator = IntelligentChunker_init
    /\ \A i \in Returned : calls[i].result = Alone(calls[i])
    /\ \A i, j \in Returned :
        /\ calls[i].content = calls[j].content
        /\ calls[i].filename = calls[j].filename
        /\ calls[i].doc_id = calls[j].doc_id
        => SameButTimestamp(calls[i].result, calls[j].result)
\* two calls with the same arguments have returned, at different times
C14_Witness ==
    \E i, j \in Returned :
        /\ i # j
        /\ calls[i].content = calls[j].content
        /\ calls[i].filename = calls[j].filename
        /\ calls[i].doc_id = calls[j].doc_id
        /\ calls[i].result.processing_timestamp # calls[j].result.processing_timestamp
        /\ calls[i].result.chunks = calls[j].result.chunks
        /\ calls[i].result.total_chunks >= 1

\* a step of the processing of the request raises: its bytes do not decode, or
\* its text holds the text of a special token, which the tokenizer refuses
RequestRaises ==
    \E i \in 1..Len(content) : content[i] \in {"BADBYTE", "SPECIAL"}
\* the fields of a whole result
ResultFields ==
    {"document_id", "document_type", "chunking_strategy", "chunks", "metadata",
     "total_chunks", "processing_timestamp"}

\* C15: when a step of the processing raises, the caller gets one failure for
\* the whole document and nothing else: the answer has no chunks and no
\* metadata, not even of the parts processed before the error; an answer that
\* carries a result carries a whole one, and only when no step raised.
C15_AllOrNothing ==
    pc = "done" =>
        IF RequestRaises
        THEN /\ response.status_code = 500
             /\ DOMAIN response = {"status_code", "detail"}
        ELSE /\ response.status_code = 200
             /\ DOMAIN response = {"status_code", "body"}
             /\ DOMAIN response.body = ResultFields
             /\ Len(response.body.chunks) = response.body.total_chunks
             /\ Len(response.body.metadata) = response.body.total_chunks
\* a failure after a heading and a sentence that chunk without error
C15_Witness ==
    /\ pc = "done"
    /\ response.status_code = 500
    /\ Len(content) > 1
    /\ content[1] = "#"
    /\ content[Len(content)] = "SPECIAL"
    /\ doc_type # None

\* the positions of a text where the section pattern matches: its delimiters
Delimiters(text) == {i \in 1..Len(text) : section_pattern(text, i) > 0}

\* C16: a content with no section delimiter, with a non-whitespace character and
\* at most max_tokens tokens gives exactly one chunk under the semantic
\* chunker: the content with its leading and trailing white space stripped.
C16_SingleChunk ==
    pc = "chunked" /\ Delimiters(content) = {} /\ strip(content) # <<>>
    /\ count_tokens(content) <= chunker.max_tokens
    => chunks = <<strip(content)>>
\* a content of several sentences with white space around it
C16_Witness ==
    /\ pc = "chunked"
    /\ Delimiters(content) = {}
    /\ strip(content) # <<>>
    /\ strip(content) # content
    /\ SentenceCount(strip(content)) >= 2
    /\ count_tokens(content) <= chunker.max_tokens
    /\ chunks = <<strip(content)>>

\* a line that begins with 'def '
IsDefLine(line) == Len(line) >= 2 /\ line[1] = "def" /\ line[2] = " "
\* the number of lines of a text that begin with 'def '
DefLineCount(text) ==
    LET lines == split_lines(text)
    IN  Cardinality({k \in 1..Len(lines) : IsDefLine(lines[k])})
\* a fenced block above the budget with two or more function definitions
SplitByDef(block, max) == count_tokens(block) > max /\ DefLineCount(block) >= 2
\* the content has such a block, and no line beginning with 'def ' lies in the
\* text around the blocks or in a block of another kind
HasOnlySplitByDefBlocks(text, max) ==
    LET blocks == extract_code_blocks(text, 1)
        parts == split_on_code_blocks(text, 1)
    IN  /\ \E b \in 1..Len(blocks) : SplitByDef(blocks[b], max)
        /\ \A b \in 1..Len(blocks) :
               SplitByDef(blocks[b], max) \/ DefLineCount(blocks[b]) = 0
        /\ \A p \in 1..Len(parts) : DefLineCount(parts[p]) = 0
\* a text begins with the symbols of prefix
StartsWith(text, prefix) ==
    Len(text) >= Len(prefix) /\ SubSeq(text, 1, Len(prefix)) = prefix
\* the emitted chunks that hold a function definition
DefChunks == {i \in 1..Len(chunks) : DefLineCount(chunks[i]) >= 1}

\* C17 as stated: a fenced block above max_tokens with two or more lines
\* beginning with 'def ' is emitted as two or more chunks, each starting with
\* 'def '.
C17_ChunksStartWithDef ==
    pc = "chunked" /\ HasOnlySplitByDefBlocks(content, chunker.max_tokens) =>
        /\ Cardinality(DefChunks) >= 2
        /\ \A i \in DefChunks : StartsWith(chunks[i], <<"def", " ">>)

\* C17 as amended: ... is emitted as two or more chunks, each a fragment
\* wrapped again in fence markers: a fence line, then a line starting with
\* 'def ', and a closing fence at the end.
C17_FencedChunksStartWithDef ==
    pc = "chunked" /\ HasOnlySplitByDefBlocks(content, chunker.max_tokens) =>
        /\ Cardinality(DefChunks) >= 2
        /\ \A i \in DefChunks :
            /\ StartsWith(chunks[i], <<"FENCE", "\n", "def", " ">>)
            /\ chunks[i][Len(chunks[i])] = "FENCE"
            /\ DefLineCount(chunks[i]) = 1
C17_Witness ==
    /\ pc = "chunked"
    /\ HasOnlySplitByDefBlocks(content, chunker.max_tokens)
    /\ Len(chunks) >= 2
    /\ \A i \in 1..2 : StartsWith(chunks[i], <<"FENCE", "\n", "def", " ">>)

\* the delimiters that re.split finds, left to right from position i on, each
\* with its first position and the position after its last
RECURSIVE DelimiterSpans(_, _)
DelimiterSpans(text, i) ==
    IF i > Len(text) THEN <<>>
    ELSE LET e == section_pattern(text, i)
         IN  IF e > 0 THEN <<[from |-> i, to |-> e]>> \o DelimiterSpans(text, e)
             ELSE DelimiterSpans(text, i + 1)
\* the position in the content of the first symbol of section unit k
UnitStart(units, k) == 1 + SumSeq([j \in 1..(k - 1) |-> Len(units[j])])
\* the section units of the content are consecutive pieces of it
UnitsCoverContent(units, text) ==
    Flatten(units) = text

\* C18: every delimiter found in the content lies in a section unit that runs
\* from the delimiter to the next delimiter (or the end of the content): the
\* unit holds the text that follows the header and not the text before it, and
\* no delimiter is dropped.
C18_HeaderWithFollowingText ==
    pc = "chunked" =>
        LET units == split_by_sections(content)
            spans == DelimiterSpans(content, 1)
        IN  /\ UnitsCoverContent(units, content)
            /\ \A d \in 1..Len(spans) :
                \E k \in 1..Len(units) :
                    /\ UnitStart(units, k) = spans[d].from
                    /\ UnitStart(units, k) + Len(units[k]) =
                           (IF d < Len(spans) THEN spans[d + 1].from
                            ELSE Len(content) + 1)

\* C19: every chunk a chunker returns is non-empty and has no leading or
\* trailing white space, the chunk of a section that has a heading and no body
\* included.
C19_ChunksStripped ==
    pc = "chunked" =>
        \A i \in 1..Len(chunks) :
            chunks[i] # <<>> /\ strip(chunks[i]) = chunks[i]

\* the stripped non-blank lines of a text
NonBlankLines(text) ==
    LET lines == split_lines(text)
    IN  SelectSeq([k \in 1..Len(lines) |-> strip(lines[k])],
                  LAMBDA line : line # <<>>)
\* the sections of a document read off its lines from line k on: a heading line
\* opens a section with its text as title, any other line belongs to the
\* section open before it, and lines before the first heading form a section
\* titled Introduction
RECURSIVE SectionsOf(_, _, _)
SectionsOf(lines, k, secs) ==
    IF k > Len(lines) THEN secs
    ELSE LET h == header_match(lines[k])
             n == Len(secs)
         IN  IF h # NoMatch
             THEN SectionsOf(lines, k + 1,
                      Append(secs, [title |-> h.title, body |-> <<>>]))
             ELSE IF n = 0
             THEN SectionsOf(lines, k + 1,
                      <<[title |-> <<"Introduction">>, body |-> <<lines[k]>>]>>)
             ELSE SectionsOf(lines, k + 1,
                      [secs EXCEPT ![n].body = Append(@, lines[k])])
DocumentSections(text) == SectionsOf(NonBlankLines(text), 1, <<>>)
\* lines occur one after the other somewhere in body
ConsecutiveIn(lines, body) ==
    \E at \in 0..(Len(body) - Len(lines)) :
        \A j \in 1..Len(lines) : body[at + j] = lines[j]
\* a chunk of a section: its first line is '# ' and the title, the lines after
\* it are lines of the section's body, and there are some when the section has
\* a body
ChunkOfSection(chunk, sec) ==
    LET lines == split_lines(chunk)
        rest == NonBlankLines(Suffix(chunk, Len(lines[1]) + 1))
    IN  /\ lines[1] = <<"#", " ">> \o sec.title
        /\ ConsecutiveIn(rest, sec.body)
        /\ sec.body # <<>> => rest # <<>>
\* chunks i, i + 1, ... are chunks of sections s, s + 1, ... in that order
RECURSIVE InSectionOrder(_, _, _)
InSectionOrder(cs, i, secs) ==
    IF i > Len(cs) THEN TRUE
    ELSE \E s \in 1..Len(secs) :
            /\ ChunkOfSection(cs[i], secs[s])
            /\ InSectionOrder(cs, i + 1, [j \in 1..(Len(secs) - s + 1) |-> secs[j + s - 1]])

\* C20: every chunk of the hierarchical chunker begins with the line
\* '# {title}' of the section it came from ('Introduction' for the lines before
\* the first heading), the chunks follow the order of their sections in the
\* document, and no chunk of a section with body text is the title alone.
C20_TitleContext ==
    pc = "chunked" =>
        /\ \A i \in 1..Len(chunks) : chunks[i] # <<>>
        /\ InSectionOrder(chunks, 1, DocumentSections(content))
\* an unheaded line, then a headed section whose body is above the budget
C20_Witness ==
    /\ pc = "chunked"
    /\ Len(chunks) >= 2
    /\ StartsWith(chunks[1], <<"#", " ", "Introduction", "\n">>)
    /\ \E s \in 2..Len(DocumentSections(content)) :
        LET sec == DocumentSections(content)[s]
        IN  /\ sec.body # <<>>
            /\ count_tokens(title_prefix(sec.title) \o Join(sec.body, <<"\n">>))
                   > chunker.max_tokens

\* a heading line: one to six '#', white space, then text; its level is the
\* number of '#' (0 when the line is no heading)
HeadingLevel(line) ==
    LET n == HashRun(line, 1)
    IN  IF n >= 1 /\ n <= 6 /\ n + 1 <= Len(line) /\ IsSpace(line[n + 1])
           /\ strip(Suffix(line, n + 1)) # <<>>
        THEN n ELSE 0
HeadingText(line) == strip(Suffix(line, HeadingLevel(line) + 1))
\* what a line of the document is for the parser: a heading with its level and
\* title, or a body line
LineItem(line) ==
    IF HeadingLevel(line) > 0
    THEN [heading |-> TRUE, level |-> HeadingLevel(line), text |-> HeadingText(line)]
    ELSE [heading |-> FALSE, level |-> 0, text |-> line]
\* a parsed section written back as items: its heading, unless it is the
\* Introduction section, then its body lines
SectionItems(section) ==
    (IF section.level = 0 THEN <<>>
     ELSE <<[heading |-> TRUE, level |-> section.level, text |-> section.title]>>)
    \o [j \in 1..Len(section.content) |->
           [heading |-> FALSE, level |-> 0, text |-> section.content[j]]]

\* C21: the parsed sections, read in order, give back the non-blank lines of
\* the document in order: every heading line opens one section, every other
\* line is held once by the section of the nearest heading before it, or by
\* the Introduction section (level 0), of which there is at most one and which
\* is then the first section.
C21_ParseStructure ==
    pc = "chunked" =>
        LET structure == parse_structure(content)
            lines == NonBlankLines(content)
        IN  /\ Flatten([s \in 1..Len(structure) |-> SectionItems(structure[s])])
                   = [k \in 1..Len(lines) |-> LineItem(lines[k])]
            /\ \A s \in 1..Len(structure) :
                /\ structure[s].level \in 0..6
                /\ structure[s].level = 0 =>
                    /\ s = 1
                    /\ structure[s].title = <<"Introduction">>
                    /\ structure[s].content # <<>>
                    /\ \A j \in 1..Len(structure[s].content) :
                           HeadingLevel(structure[s].content[j]) = 0
\* two unheaded lines, then a headed section with a body
C21_Witness ==
    /\ pc = "chunked"
    /\ LET structure == parse_structure(content)
       IN  /\ Len(structure) >= 2
           /\ structure[1].level = 0
           /\ Len(structure[1].content) >= 2
           /\ \E s \in 2..Len(structure) : structure[s].content # <<>>

\* the positions of the fence markers of a text, in order
FencePositions(text) ==
    SelectSeq([i \in 1..Len(text) |-> IF text[i] = "FENCE" THEN i ELSE 0],
              LAMBDA i : i > 0)
\* the number of fenced blocks: fences pair up from the left
BlockCount(text) == Len(FencePositions(text)) \div 2
\* the j-th fenced block, fences included
SourceBlock(text, j) ==
    SubSeq(text, FencePositions(text)[2 * j - 1], FencePositions(text)[2 * j])
\* the j-th prose segment: the text before the j-th block, or after the last
SourceProse(text, j) ==
    LET f == FencePositions(text)
        from == IF j = 1 THEN 1 ELSE f[2 * j - 2] + 1
        to == IF j <= BlockCount(text) THEN f[2 * j - 1] - 1 ELSE Len(text)
    IN  SubSeq(text, from, to)
\* the chunks of one fenced block: the block itself when within the budget,
\* else its fragments
SourceBlockChunks(block, max) ==
    IF count_tokens(block) <= max THEN <<block>>
    ELSE strip_and_drop(split_code_block(block, max))
\* the chunks of one prose segment
SourceProseChunks(prose, max) ==
    IF strip(prose) = <<>> THEN <<>> ELSE SemanticChunker_chunk(prose, max)

\* C22: the chunks of the code-aware chunker follow the source: for each prose
\* segment in order its semantic chunks, then the chunks of the fenced block
\* right after it; every block is handled once, and a block of at most
\* max_tokens tokens is one chunk, verbatim with its fences.
C22_SourceOrder ==
    pc = "chunked" =>
        LET max == chunker.max_tokens
            n == BlockCount(content)
        IN  chunks = Flatten([j \in 1..(n + 1) |->
                SourceProseChunks(SourceProse(content, j), max)
                \o (IF j <= n THEN SourceBlockChunks(SourceBlock(content, j), max)
                    ELSE <<>>)])
\* prose, a block within the budget, prose
C22_Witness ==
    /\ pc = "chunked"
    /\ BlockCount(content) = 1
    /\ strip(SourceProse(content, 1)) # <<>>
    /\ strip(SourceProse(content, 2)) # <<>>
    /\ Len(chunks) = 3
    /\ chunks[2] = SourceBlock(content, 1)

\* the lines of a code text where a declaration with keyword kw starts
DeclLines(lines, kw) ==
    {k \in 1..Len(lines) :
        Len(lines[k]) >= 3 /\ lines[k][1] = kw /\ lines[k][2] = " "
        /\ IsWord(lines[k][3])}
\* the keywords that start a declaration in the code, in the order def, class,
\* function, public
MatchingKeywords(lines) ==
    SelectSeq(<<"def", "class", "function", "public">>,
              LAMBDA kw : DeclLines(lines, kw) # {})
\* the non-blank lines of lines[from..to]
LinesBetween(lines, from, to) ==
    SelectSeq([k \in 1..(to - from + 1) |-> strip(lines[from + k - 1])],
              LAMBDA line : line # <<>>)
\* a chunk is a fragment wrapped in fence markers: a fence line, the lines of
\* the fragment, a closing fence line
IsFenced(chunk, fragment_lines) ==
    NonBlankLines(chunk) = <<<<"FENCE">>>> \o fragment_lines \o <<<<"FENCE">>>>
\* the content is one fenced block above the budget and nothing else
OneBlockAboveBudget ==
    /\ BlockCount(content) = 1
    /\ strip(SourceProse(content, 1)) = <<>>
    /\ strip(SourceProse(content, 2)) = <<>>
    /\ count_tokens(SourceBlock(content, 1)) > chunker.max_tokens
\* the chunks are the declarations of keyword kw, one per chunk, each from its
\* declaration line to the line before the next one
SplitAtDeclarations(lines, kw) ==
    LET at == SelectSeq([k \in 1..Len(lines) |-> IF k \in DeclLines(lines, kw) THEN k ELSE 0],
                        LAMBDA k : k > 0)
    IN  /\ Len(chunks) = Len(at)
        /\ \A i \in 1..Len(at) :
            IsFenced(chunks[i],
                     LinesBetween(lines, at[i],
                         IF i < Len(at) THEN at[i + 1] - 1 ELSE Len(lines)))
\* the chunks are runs of lines, together all the lines in order, each run within
\* the budget unless it is one line
PackedByLines(lines, max) ==
    /\ \A i \in 1..Len(chunks) :
        LET inner == NonBlankLines(chunks[i])
        IN  /\ Len(inner) >= 3
            /\ inner[1] = <<"FENCE">> /\ inner[Len(inner)] = <<"FENCE">>
            /\ Len(inner) = 3
               \/ count_tokens(Join(SubSeq(inner, 2, Len(inner) - 1), <<"\n">>)) <= max
    /\ Flatten([i \in 1..Len(chunks) |->
           SubSeq(NonBlankLines(chunks[i]), 2, Len(NonBlankLines(chunks[i])) - 1)])
       = LinesBetween(lines, 1, Len(lines))

\* C23: an over-budget code block is split at the declarations of the first of
\* the patterns def, class, function, public that matches in it, and of that
\* pattern only; it is packed line by line exactly when none of the four
\* matches; every fragment is emitted wrapped in fence markers.
C23_FirstMatchingPattern ==
    pc = "chunked" /\ OneBlockAboveBudget =>
        LET lines == split_lines(remove_fence_markers(SourceBlock(content, 1), 1))
            kws == MatchingKeywords(lines)
        IN  IF kws # <<>>
            THEN SplitAtDeclarations(lines, kws[1])
            ELSE PackedByLines(lines, chunker.max_tokens)
\* a block above the budget with a class declaration before a def declaration
C23_Witness ==
    /\ pc = "chunked"
    /\ OneBlockAboveBudget
    /\ LET lines == split_lines(remove_fence_markers(SourceBlock(content, 1), 1))
       IN  /\ Len(MatchingKeywords(lines)) >= 2
           /\ \E c \in DeclLines(lines, "class") :
               \E d \in DeclLines(lines, "def") : c < d
    /\ Len(chunks) = 1
\* a block above the budget without any declaration, packed line by line
C23_WitnessPacked ==
    /\ pc = "chunked"
    /\ OneBlockAboveBudget
    /\ MatchingKeywords(split_lines(remove_fence_markers(SourceBlock(content, 1), 1))) = <<>>
    /\ chunks # <<>>

\* the trimmed lines of a chunk that start with '#', in order
MarkedLines(chunk) ==
    SelectSeq(NonBlankLines(chunk), LAMBDA line : line[1] = "#")
\* a line without its leading '#' characters and the white space around the rest
WithoutMarker(line) ==
    LET rest == SelectSeq([k \in 1..Len(line) |->
                    IF \A j \in 1..k : line[j] = "#" THEN "" ELSE line[k]],
                    LAMBDA c : c # "")
    IN  strip(rest)

\* C24: section_title of a chunk is the text of the first line of the chunk
\* that starts with '#' once trimmed, without the leading '#' characters and
\* the white space around it; it is null exactly when no line starts with '#';
\* a chunk of the hierarchical strategy has its section's title, never null.
C24_SectionTitle ==
    pc = "done" /\ response.status_code = 200 =>
        \A i \in 1..Len(result.chunks) :
            LET marked == MarkedLines(result.chunks[i])
                title == result.metadata[i].section_title
            IN  /\ title = NoTitle <=> marked = <<>>
                /\ marked # <<>> => title = WithoutMarker(marked[1])
                /\ result.chunking_strategy = "hierarchical" =>
                    /\ title # NoTitle
                    /\ \E s \in 1..Len(DocumentSections(content)) :
                        /\ ChunkOfSection(result.chunks[i], DocumentSections(content)[s])
                        /\ title = DocumentSections(content)[s].title
\* a hierarchical result with an Introduction chunk and a headed chunk
C24_Witness ==
    /\ pc = "done"
    /\ response.status_code = 200
    /\ result.chunking_strategy = "hierarchical"
    /\ Len(result.chunks) >= 2
    /\ result.metadata[1].section_title = <<"Introduction">>
    /\ result.metadata[2].section_title = <<"A">>
\* a chunk whose heading line is not its first line, and a chunk without one
C24_WitnessSemantic ==
    /\ pc = "done"
    /\ response.status_code = 200
    /\ result.chunking_strategy # "hierarchical"
    /\ \E i \in 1..Len(result.chunks) :
        /\ MarkedLines(result.chunks[i]) # <<>>
        /\ NonBlankLines(result.chunks[i])[1][1] # "#"
    /\ \E i \in 1..Len(result.chunks) : result.metadata[i].section_title = NoTitle

\* a text without its white space
WithoutSpace(text) == SelectSeq(text, LAMBDA c : ~IsSpace(c))

\* C25: the chunks of the semantic chunker, put together in order and with all
\* white space removed, are the content with all white space removed: no text
\* is lost, repeated or moved, also when a section is split by sentences.
C25_TextPreserved ==
    pc = "chunked" => WithoutSpace(Flatten(chunks)) = WithoutSpace(content)
\* a content with a heading whose body is above the budget and is split by
\* sentences into several chunks
C25_Witness ==
    /\ pc = "chunked"
    /\ Delimiters(content) # {}
    /\ \E k \in 1..Len(split_by_sections(content)) :
        /\ count_tokens(split_by_sections(content)[k]) > chunker.max_tokens
        /\ Len(split_by_sentences(split_by_sections(content)[k], chunker.max_tokens)) >= 2
    /\ Len(chunks) >= 3

====
